---- MODULE Spec2Model ----
(***************************************************************************)
(* Model of the geolocator fallback chain (src/src/main.rs):               *)
(* Location::get_location tries get_gps_location, get_geo_location (WiFi)  *)
(* and get_ip_location in that order, normalises the first pair obtained   *)
(* with f64_to_i32_coordinates, and main reports the outcome.              *)
(*                                                                         *)
(* Text is a sequence of one-character strings.  A finite f64 is the       *)
(* integer n standing for n/128 degrees: such values, and their products   *)
(* with 1e6, are exact in binary floating point, and odd n gives an exact  *)
(* half-micro-degree tie.                                                  *)
(***************************************************************************)
EXTENDS Integers, Sequences, FiniteSets, TLC

\* ------------------------------------------------------------------ bounds
\* Largest number of lines in the output of the WiFi scan command.
MaxLines == 2
\* Degree values probed around zero, in units of 1/128 degree on each side.
MaxProbe == 4
\* Largest number of characters and escaped colons in a probed SSID.
MaxSsid == 2

\* ------------------------------------------------------------- i32 and f64
I32Max == 2147483647
I32Min == (-2147483647) - 1

Fin(n) == [cls |-> "fin", n |-> n]
NaN == [cls |-> "nan", n |-> 0]
PInf == [cls |-> "inf", n |-> 1]
NInf == [cls |-> "inf", n |-> -1]

Abs(i) == IF i < 0 THEN -i ELSE i

\* Units of 1/128 degree per degree.
Unit == 128
\* 1e6/128 = 7812.5: an even n = 2q scales to q * 15625 exactly, an odd
\* n = 2q+1 to q * 15625 + 7812.5, which round() takes away from zero.
PerTwoUnits == 15625
HalfUp == 7813
\* Smallest |n| whose scaled value lies outside i32 (274878 * 7812.5 > 2^31).
SatUnits == 274878

\* A variant that scales by 1e7 instead of 1e6.
ScaleRoundCast_tenfold(x) ==
    IF x.cls = "nan" THEN 0
    ELSE IF x.cls = "inf" THEN (IF x.n > 0 THEN I32Max ELSE I32Min)
    ELSE IF 10 * x.n >= SatUnits THEN I32Max
    ELSE IF 10 * x.n <= -SatUnits THEN I32Min
    ELSE LET m == Abs(x.n) * (5 * PerTwoUnits)
         IN  IF x.n >= 0 THEN m ELSE -m

\* A variant that drops the fraction instead of rounding.
ScaleRoundCast_truncating(x) ==
    IF x.cls = "nan" THEN 0
    ELSE IF x.cls = "inf" THEN (IF x.n > 0 THEN I32Max ELSE I32Min)
    ELSE IF x.n >= SatUnits THEN I32Max
    ELSE IF x.n <= -SatUnits THEN I32Min
    ELSE LET m == (Abs(x.n) \div 2) * PerTwoUnits
                  + (IF Abs(x.n) % 2 = 1 THEN HalfUp - 1 ELSE 0)
         IN  IF x.n >= 0 THEN m ELSE -m

\* (x * 1_000_000.0).round() as i32 : the product is exact, round() takes a
\* tie away from zero, the cast saturates, and NaN casts to 0.
ScaleRoundCast(x) ==
    IF x.cls = "nan" THEN 0
    ELSE IF x.cls = "inf" THEN (IF x.n > 0 THEN I32Max ELSE I32Min)
    ELSE IF x.n >= SatUnits THEN I32Max
    ELSE IF x.n <= -SatUnits THEN I32Min
    ELSE LET q == Abs(x.n) \div 2
             m == q * PerTwoUnits + (IF Abs(x.n) % 2 = 1 THEN HalfUp ELSE 0)
         IN  IF x.n >= 0 THEN m ELSE -m

f64_to_i32_coordinates(lat, lon) == <<ScaleRoundCast(lat), ScaleRoundCast(lon)>>

\* ----------------------------------------------------------------- Result
Ok(v) == [ok |-> TRUE, val |-> v, err |-> "none"]
Err(e) == [ok |-> FALSE, val |-> <<>>, err |-> e]
NotCalled == Err("NotCalled")

\* ------------------------------------------------------------------- JSON
\* A JSON value as serde_json::Value holds it.  A number carries its f64.
JNull == [t |-> "null"]
JNum(x) == [t |-> "num", v |-> x]
JStr(s) == [t |-> "str", s |-> s]
JArr == [t |-> "arr"]
JObj(m) == [t |-> "obj", m |-> m]

\* A text handed to a JSON decoder: it either is one JSON value or is not
\* (garbage, an empty text, or a value followed by further characters).
Doc(v) == [valid |-> TRUE, v |-> v]
BadDoc == [valid |-> FALSE, v |-> JNull]

\* value["key"] : Null unless value is an object holding the key.
Index(v, key) ==
    IF v.t = "obj" /\ key \in DOMAIN v.m THEN v.m[key] ELSE JNull

\* Value::as_f64 : Some(x) for a number only.
as_f64(v) == IF v.t = "num" THEN Ok(v.v) ELSE Err("None")

\* ---------------------------------------------------------- GPS adapter
\* A variant of get_gps_location that does not look at the exit status.
get_gps_location_no_status(launched, success, stdout) ==
    IF ~launched THEN [res |-> Err("Spawn"), printed |-> FALSE]
    ELSE IF ~stdout.valid THEN [res |-> Err("Json"), printed |-> TRUE]
    ELSE LET lat == as_f64(Index(stdout.v, "lat"))
             lon == as_f64(Index(stdout.v, "lon"))
         IN  IF lat.ok /\ lon.ok
             THEN [res |-> Ok(<<lat.val, lon.val>>), printed |-> TRUE]
             ELSE [res |-> Err("Failed to extract GPS coordinates from JSON"),
                   printed |-> TRUE]

\* get_gps_location over what gpspipe did: launched or not, its exit status,
\* its stdout.  printed tells whether the "GPS data" line was written.
get_gps_location(launched, success, stdout) ==
    IF ~launched THEN [res |-> Err("Spawn"), printed |-> FALSE]
    ELSE IF ~success
    THEN [res |-> Err("Failed to execute gpspipe command"), printed |-> FALSE]
    ELSE IF ~stdout.valid THEN [res |-> Err("Json"), printed |-> TRUE]
    ELSE LET lat == as_f64(Index(stdout.v, "lat"))
             lon == as_f64(Index(stdout.v, "lon"))
         IN  IF lat.ok /\ lon.ok
             THEN [res |-> Ok(<<lat.val, lon.val>>), printed |-> TRUE]
             ELSE [res |-> Err("Failed to extract GPS coordinates from JSON"),
                   printed |-> TRUE]

\* -------------------------------------------------------------------- text
\* str::split(sep) : the pieces between separators; always at least one.
RECURSIVE SplitFrom(_, _, _, _)
SplitFrom(s, sep, i, cur) ==
    IF i > Len(s) THEN <<cur>>
    ELSE IF s[i] = sep THEN <<cur>> \o SplitFrom(s, sep, i + 1, <<>>)
    ELSE SplitFrom(s, sep, i + 1, Append(cur, s[i]))

split(s, sep) == SplitFrom(s, sep, 1, <<>>)

\* str::lines : split at "\n", an empty piece after the last newline is not
\* a line, and a "\r" ending a line is dropped.
StripCR(l) ==
    IF Len(l) > 0 /\ l[Len(l)] = "\r" THEN SubSeq(l, 1, Len(l) - 1) ELSE l

lines(s) ==
    LET ps == split(s, "\n")
        qs == IF ps[Len(ps)] = <<>> THEN SubSeq(ps, 1, Len(ps) - 1) ELSE ps
    IN  [i \in 1..Len(qs) |-> StripCR(qs[i])]

\* [&str]::join(sep)
RECURSIVE join(_, _)
join(ps, sep) ==
    IF Len(ps) = 0 THEN <<>>
    ELSE IF Len(ps) = 1 THEN ps[1]
    ELSE ps[1] \o <<sep>> \o join(Tail(ps), sep)

\* str::replace("\\:", ":") : leftmost non-overlapping matches.
RECURSIVE ReplaceFrom(_, _)
ReplaceFrom(s, i) ==
    IF i > Len(s) THEN <<>>
    ELSE IF i < Len(s) /\ s[i] = "\\" /\ s[i + 1] = ":"
    THEN <<":">> \o ReplaceFrom(s, i + 2)
    ELSE <<s[i]>> \o ReplaceFrom(s, i + 1)

replace(s) == ReplaceFrom(s, 1)

\* str::to_uppercase, on the letters that occur in the scan texts.
UpperChar(c) ==
    CASE c = "a" -> "A" [] c = "b" -> "B" [] c = "c" -> "C"
      [] c = "d" -> "D" [] c = "e" -> "E" [] c = "f" -> "F"
      [] c = "n" -> "N" [] c = "t" -> "T" [] c = "z" -> "Z"
      [] OTHER -> c

to_uppercase(s) == [i \in 1..Len(s) |-> UpperChar(s[i])]

Digits == {"0", "1", "2", "3", "4", "5", "6", "7", "8", "9"}

DigitVal(c) ==
    CASE c = "0" -> 0 [] c = "1" -> 1 [] c = "2" -> 2 [] c = "3" -> 3
      [] c = "4" -> 4 [] c = "5" -> 5 [] c = "6" -> 6 [] c = "7" -> 7
      [] c = "8" -> 8 [] c = "9" -> 9

\* str::parse::<i32> : an optional sign, then one or more digits and nothing
\* else; a value outside i32 is an error.  The value is accumulated on the
\* side of its sign, as the library does, so that i32::MIN parses.
RECURSIVE ParseDigits(_, _, _, _)
ParseDigits(s, i, neg, acc) ==
    IF i > Len(s) THEN Ok(acc)
    ELSE IF s[i] \notin Digits THEN Err("InvalidDigit")
    ELSE LET d == DigitVal(s[i]) IN
         IF neg
         THEN IF acc < (I32Min + d) \div 10 + (IF (I32Min + d) % 10 = 0 THEN 0 ELSE 1)
              THEN Err("NegOverflow")
              ELSE ParseDigits(s, i + 1, neg, acc * 10 - d)
         ELSE IF acc > (I32Max - d) \div 10
              THEN Err("PosOverflow")
              ELSE ParseDigits(s, i + 1, neg, acc * 10 + d)

parse_i32(s) ==
    IF Len(s) = 0 THEN Err("Empty")
    ELSE IF s[1] \in {"+", "-"}
    THEN IF Len(s) = 1 THEN Err("InvalidDigit")
         ELSE ParseDigits(s, 2, s[1] = "-", 0)
    ELSE ParseDigits(s, 1, FALSE, 0)

\* str::parse::<f64> for the texts of the model: an optional sign, then
\* "nan", "inf" or "infinity" in any case, or digits with an optional
\* fraction (one digit at least).  No text of the model has an exponent, and
\* every decimal of the model is a multiple of 1/128.
LowerChar(c) ==
    CASE c = "N" -> "n" [] c = "A" -> "a" [] c = "I" -> "i" [] c = "F" -> "f"
      [] c = "T" -> "t" [] c = "Y" -> "y" [] OTHER -> c

to_lowercase(s) == [i \in 1..Len(s) |-> LowerChar(s[i])]

RECURSIVE Pow10(_)
Pow10(d) == IF d = 0 THEN 1 ELSE 10 * Pow10(d - 1)

RECURSIVE DigitsValue(_, _)
DigitsValue(s, acc) ==
    IF Len(s) = 0 THEN acc ELSE DigitsValue(Tail(s), acc * 10 + DigitVal(s[1]))

AllDigits(s) == \A i \in 1..Len(s) : s[i] \in Digits

ParseDecimal(s, neg) ==
    LET ps == split(s, ".")
        ip == ps[1]
        fp == IF Len(ps) = 2 THEN ps[2] ELSE <<>>
    IN  IF Len(ps) > 2 \/ ~AllDigits(ip) \/ ~AllDigits(fp)
           \/ Len(ip) + Len(fp) = 0
        THEN Err("ParseFloatError")
        ELSE LET n == DigitsValue(ip, 0) * Unit
                      + (DigitsValue(fp, 0) * Unit) \div Pow10(Len(fp))
             IN  Ok(Fin(IF neg THEN -n ELSE n))

parse_f64(s) ==
    LET signed == Len(s) > 0 /\ s[1] \in {"+", "-"}
        neg == Len(s) > 0 /\ s[1] = "-"
        body == IF signed THEN Tail(s) ELSE s
        low == to_lowercase(body)
    IN  IF low = <<"n", "a", "n">> THEN Ok(NaN)
        ELSE IF low \in {<<"i", "n", "f">>,
                         <<"i", "n", "f", "i", "n", "i", "t", "y">>}
        THEN Ok(IF neg THEN NInf ELSE PInf)
        ELSE ParseDecimal(body, neg)

\* --------------------------------------------------------- WiFi adapter
\* HTTP: what came back for a request.  sent = FALSE is a transport failure.
Response(sent, status, body) == [sent |-> sent, status |-> status, body |-> body]

is_success(status) == status >= 200 /\ status <= 299

\* Deserialize for f64 : a JSON number.
de_f64(v) == IF v.t = "num" THEN Ok(v.v) ELSE Err("Decode")

\* Deserialize for GoogleGeoResponse { location: { lat, lng }, accuracy }.
de_GoogleGeoResponse(doc) ==
    IF ~doc.valid \/ doc.v.t # "obj" THEN Err("Decode")
    ELSE LET loc == Index(doc.v, "location")
             lat == de_f64(Index(loc, "lat"))
             lng == de_f64(Index(loc, "lng"))
             acc == de_f64(Index(doc.v, "accuracy"))
         IN  IF loc.t = "obj" /\ lat.ok /\ lng.ok /\ acc.ok
             THEN Ok([lat |-> lat.val, lng |-> lng.val, accuracy |-> acc.val])
             ELSE Err("Decode")

\* -signal on i32: i32::MIN has no negation; with overflow checks the
\* operation panics, without them it wraps to i32::MIN.
Negate(signal, overflow_checks) ==
    IF signal = I32Min
    THEN (IF overflow_checks THEN Err("panic") ELSE Ok(I32Min))
    ELSE Ok(-signal)

\* The body of the loop over the scan lines: the access point of one line,
\* Err("skip") for a line of fewer than 3 fields.
AccessPoint(line, overflow_checks) ==
    LET parts == split(line, ":") IN
    IF Len(parts) >= 3
    THEN LET bssid_parts == SubSeq(parts, 2, Len(parts) - 1)
             bssid == replace(join(bssid_parts, ":"))
             parsed == parse_i32(parts[Len(parts)])
             signal == IF parsed.ok THEN parsed.val ELSE 0
             neg == Negate(signal, overflow_checks)
         IN  IF neg.ok
             THEN Ok([macAddress |-> to_uppercase(bssid),
                      signalStrength |-> neg.val])
             ELSE Err("panic")
    ELSE Err("skip")

\* A variant of the loop that puts each access point in front of the list.
RECURSIVE ScanLoop_reversed(_, _, _)
ScanLoop_reversed(ls, wifi_list, overflow_checks) ==
    IF Len(ls) = 0 THEN Ok(wifi_list)
    ELSE LET ap == AccessPoint(ls[1], overflow_checks) IN
         IF ap.ok
         THEN ScanLoop_reversed(Tail(ls), <<ap.val>> \o wifi_list, overflow_checks)
         ELSE IF ap.err = "skip"
         THEN ScanLoop_reversed(Tail(ls), wifi_list, overflow_checks)
         ELSE Err("panic")

\* The loop: wifi_list, or the panic that ended it.
RECURSIVE ScanLoop(_, _, _)
ScanLoop(ls, wifi_list, overflow_checks) ==
    IF Len(ls) = 0 THEN Ok(wifi_list)
    ELSE LET ap == AccessPoint(ls[1], overflow_checks) IN
         IF ap.ok THEN ScanLoop(Tail(ls), Append(wifi_list, ap.val), overflow_checks)
         ELSE IF ap.err = "skip" THEN ScanLoop(Tail(ls), wifi_list, overflow_checks)
         ELSE Err("panic")

NoRequest == [considerIp |-> FALSE, wifiAccessPoints |-> <<>>]

\* Vec::is_empty, and a variant that never reports an empty list.
is_empty_never(list) == FALSE

is_empty(list) == Len(list) = 0

\* get_geo_location over what its environment did: key tells whether GEO_API
\* is set, launched and success what nmcli did, stdout what it printed, resp
\* what the geolocation service answers.  Besides the result it tells how
\* often nmcli ran, how many POSTs were sent and with which body.
WifiOutcome(res, nmcli, posts, request) ==
    [res |-> res, nmcli |-> nmcli, posts |-> posts, request |-> request]

\* A variant of get_geo_location that reads the key only when it builds the
\* url of the request.
get_geo_location_key_late(key, launched, success, stdout, resp, overflow_checks) ==
    IF ~launched THEN WifiOutcome(Err("Spawn"), 1, 0, NoRequest)
    ELSE LET loop == ScanLoop(lines(stdout), <<>>, overflow_checks) IN
         IF ~loop.ok THEN WifiOutcome(Err("panic"), 1, 0, NoRequest)
         ELSE IF is_empty(loop.val)
         THEN WifiOutcome(Err("No Wi-Fi networks found"), 1, 0, NoRequest)
         ELSE IF ~key THEN WifiOutcome(Err("NotPresent"), 1, 0, NoRequest)
         ELSE LET geo_request == [considerIp |-> TRUE,
                                  wifiAccessPoints |-> loop.val]
                  decoded == de_GoogleGeoResponse(resp.body)
              IN  IF ~resp.sent
                  THEN WifiOutcome(Err("Transport"), 1, 1, geo_request)
                  ELSE IF ~decoded.ok
                  THEN WifiOutcome(Err("Decode"), 1, 1, geo_request)
                  ELSE WifiOutcome(Ok(<<decoded.val.lat, decoded.val.lng>>),
                                   1, 1, geo_request)

get_geo_location(key, launched, success, stdout, resp, overflow_checks) ==
    IF ~key THEN WifiOutcome(Err("NotPresent"), 0, 0, NoRequest)
    ELSE IF ~launched THEN WifiOutcome(Err("Spawn"), 1, 0, NoRequest)
    ELSE LET loop == ScanLoop(lines(stdout), <<>>, overflow_checks) IN
         IF ~loop.ok THEN WifiOutcome(Err("panic"), 1, 0, NoRequest)
         ELSE IF is_empty(loop.val)
         THEN WifiOutcome(Err("No Wi-Fi networks found"), 1, 0, NoRequest)
         ELSE LET geo_request == [considerIp |-> TRUE,
                                  wifiAccessPoints |-> loop.val]
                  decoded == de_GoogleGeoResponse(resp.body)
              IN  IF ~resp.sent
                  THEN WifiOutcome(Err("Transport"), 1, 1, geo_request)
                  ELSE IF ~decoded.ok
                  THEN WifiOutcome(Err("Decode"), 1, 1, geo_request)
                  ELSE WifiOutcome(Ok(<<decoded.val.lat, decoded.val.lng>>),
                                   1, 1, geo_request)

\* ----------------------------------------------------------- IP adapter
\* Deserialize for IpLocation { loc: Option<String> } : an object whose loc
\* is absent or null (None) or a string (Some).
de_IpLocation(doc) ==
    IF ~doc.valid \/ doc.v.t # "obj" THEN Err("Decode")
    ELSE LET loc == Index(doc.v, "loc") IN
         IF loc.t = "null" THEN Ok([some |-> FALSE, s |-> <<>>])
         ELSE IF loc.t = "str" THEN Ok([some |-> TRUE, s |-> loc.s])
         ELSE Err("Decode")

\* A variant of get_ip_location that takes the first two parts of loc when
\* there are more.
get_ip_location_lenient(resp) ==
    IF ~resp.sent THEN Err("Transport")
    ELSE IF is_success(resp.status)
    THEN LET ip_info == de_IpLocation(resp.body) IN
         IF ~ip_info.ok THEN Err("Decode")
         ELSE IF ~ip_info.val.some THEN Err("Failed to get location via IP.")
         ELSE LET loc_parts == split(ip_info.val.s, ",") IN
              IF Len(loc_parts) >= 2
              THEN LET lat == parse_f64(loc_parts[1])
                       lon == parse_f64(loc_parts[2])
                   IN  IF ~lat.ok THEN Err("Failed to parse latitude")
                       ELSE IF ~lon.ok THEN Err("Failed to parse longitude")
                       ELSE Ok(<<lat.val, lon.val>>)
              ELSE Err("Failed to get location via IP.")
    ELSE Err("Failed to get location via IP.")

get_ip_location(resp) ==
    IF ~resp.sent THEN Err("Transport")
    ELSE IF is_success(resp.status)
    THEN LET ip_info == de_IpLocation(resp.body) IN
         IF ~ip_info.ok THEN Err("Decode")
         ELSE IF ~ip_info.val.some THEN Err("Failed to get location via IP.")
         ELSE LET loc_parts == split(ip_info.val.s, ",") IN
              IF Len(loc_parts) = 2
              THEN LET lat == parse_f64(loc_parts[1])
                       lon == parse_f64(loc_parts[2])
                   IN  IF ~lat.ok THEN Err("Failed to parse latitude")
                       ELSE IF ~lon.ok THEN Err("Failed to parse longitude")
                       ELSE Ok(<<lat.val, lon.val>>)
              ELSE Err("Failed to get location via IP.")
    ELSE Err("Failed to get location via IP.")

\* ---------------------------------------------------- the environment
\* Pairs gpspipe may report, in units of 1/128 degree: (37.5, -122.25), two
\* exact ties, and a pair outside the range of a latitude and a longitude
\* whose second scaled value exceeds i32.
GpsPairs == {<<Fin(4800), Fin(-15648)>>, <<Fin(1), Fin(-3)>>,
             <<Fin(25600), Fin(300000)>>}

\* What gpspipe may print.
GpsDocs ==
    {BadDoc, Doc(JArr), Doc(JObj([class |-> JStr(<<"V">>)])),
     Doc(JObj([lat |-> JNum(Fin(4800))])),
     Doc(JObj([lat |-> JStr(<<"1">>), lon |-> JNum(Fin(0))]))}
    \cup {Doc(JObj([lat |-> JNum(p[1]), lon |-> JNum(p[2])])) : p \in GpsPairs}

\* Lines nmcli may print: SSID:BSSID:SIGNAL with the colons of the BSSID
\* escaped, a line of two fields, an empty line, and signal fields that are
\* negative, not a number, or i32::MIN.
Mac == <<"a", "a", "\\", ":", "B", "B", "\\", ":", "0", "c", "\\", ":",
         "d", "d", "\\", ":", "e", "e", "\\", ":", "f", "f">>
ShortMac == <<"0", "a">>
ScanLines ==
    {<<"n">> \o <<":">> \o Mac \o <<":", "6", "7">>,
     <<"n", ":", "t">>,
     <<>>,
     <<"n", ":">> \o ShortMac \o <<":", "-", "4", "5">>,
     <<"n", ":">> \o ShortMac \o <<":", "z", "z">>,
     <<"n", ":">> \o ShortMac
         \o <<":", "-", "2", "1", "4", "7", "4", "8", "3", "6", "4", "8">>}

RECURSIVE Unlines(_)
Unlines(ls) ==
    IF Len(ls) = 0 THEN <<>> ELSE ls[1] \o <<"\n">> \o Unlines(Tail(ls))

ScanOutputs ==
    {Unlines(ls) : ls \in UNION {[1..k -> ScanLines] : k \in 0..MaxLines}}

GeoBody(lat, lng) ==
    Doc(JObj([location |-> JObj([lat |-> JNum(lat), lng |-> JNum(lng)]),
              accuracy |-> JNum(Fin(2560))]))
GeoErrorBody == Doc(JObj([error |-> JObj([code |-> JNum(Fin(51200))])]))
GeoNoAccuracy ==
    Doc(JObj([location |-> JObj([lat |-> JNum(Fin(0)), lng |-> JNum(Fin(0))])]))

\* Answers of the geolocation service to the POST.
GeoResponses ==
    {Response(FALSE, 0, BadDoc),
     Response(TRUE, 200, GeoBody(Fin(4800), Fin(-15648))),
     Response(TRUE, 200, GeoBody(Fin(-3), Fin(25600))),
     Response(TRUE, 200, GeoNoAccuracy),
     Response(TRUE, 200, BadDoc),
     Response(TRUE, 403, GeoErrorBody),
     Response(TRUE, 403, GeoBody(Fin(1), Fin(1)))}

\* Values of loc in the answer of the IP service: "37.5,-122.25",
\* "0.0078125,-0.0234375", "200,3000", "NaN,inf", "37.5", "1,2,3", "z,1",
\* "1,z" and the empty text.
Locs ==
    {<<"3", "7", ".", "5", ",", "-", "1", "2", "2", ".", "2", "5">>,
     <<"0", ".", "0", "0", "7", "8", "1", "2", "5", ",",
       "-", "0", ".", "0", "2", "3", "4", "3", "7", "5">>,
     <<"2", "0", "0", ",", "3", "0", "0", "0">>,
     <<"N", "a", "N", ",", "i", "n", "f">>,
     <<"3", "7", ".", "5">>,
     <<"1", ",", "2", ",", "3">>,
     <<"z", ",", "1">>,
     <<"1", ",", "z">>,
     <<>>}

\* Answers of the IP service to the GET.
IpResponses ==
    {Response(FALSE, 0, BadDoc),
     Response(TRUE, 200, BadDoc),
     Response(TRUE, 200, Doc(JArr)),
     Response(TRUE, 200, Doc(JObj([ip |-> JStr(<<"1">>)]))),
     Response(TRUE, 200, Doc(JObj([loc |-> JNull]))),
     Response(TRUE, 200, Doc(JObj([loc |-> JNum(Fin(128))]))),
     Response(TRUE, 429,
              Doc(JObj([loc |-> JStr(<<"1", ",", "2">>)])))}
    \cup {Response(TRUE, 200, Doc(JObj([loc |-> JStr(l)]))) : l \in Locs}

\* -------------------------------------------------------------- resolver
\* probe holds one application of a pure function of the program to an
\* argument: it is idle while the resolver runs.
VARIABLES pc, calls, trace, gps, wifi, ip, result, exit, probe

vars == <<pc, calls, trace, gps, wifi, ip, result, exit, probe>>
resolver == <<pc, calls, trace, gps, wifi, ip, result, exit>>

Pending == Err("Pending")
AggregateError == "Failed to get location"
NoResponse == Response(FALSE, 0, BadDoc)

\* One arm of the if/else-if chain of Location::get_location: where the
\* resolver goes from state at once the adapter tried there returned res,
\* what it returns, and whether it prints the fallback message.
Arm(to, ret, print) == [pc |-> to, result |-> ret, print |-> print]

\* A successful arm: the pair is normalised and returned; the arms after
\* the first also print the fallback message.
Located(at, res) ==
    Arm("Succeeded",
        Ok([coordinates |-> f64_to_i32_coordinates(res.val[1], res.val[2])]),
        at # "TryGPS")

\* A failed `if let`: the next else-if is tried, the last else returns the
\* aggregate error.
Fallen(at) ==
    IF at = "TryGPS" THEN Arm("TryWifi", Pending, FALSE)
    ELSE IF at = "TryWifi" THEN Arm("TryIP", Pending, FALSE)
    ELSE Arm("Failed", Err(AggregateError), FALSE)

\* Variants of get_location with one slip each.
get_location_swapped(at, res) ==
    IF res.ok
    THEN Arm("Succeeded",
             Ok([coordinates |-> f64_to_i32_coordinates(res.val[2], res.val[1])]),
             at # "TryGPS")
    ELSE Fallen(at)

get_location_gps_ignored(at, res) ==
    IF res.ok /\ at # "TryGPS" THEN Located(at, res) ELSE Fallen(at)

get_location_wifi_ignored(at, res) ==
    IF res.ok /\ at # "TryWifi" THEN Located(at, res) ELSE Fallen(at)

get_location_no_ip(at, res) ==
    IF res.ok THEN Located(at, res)
    ELSE IF at = "TryWifi" THEN Arm("Failed", Err(AggregateError), FALSE)
    ELSE Fallen(at)

get_location_silent_ip(at, res) ==
    IF res.ok THEN [Located(at, res) EXCEPT !.print = (at = "TryWifi")]
    ELSE Fallen(at)

get_location_retry(at, res) ==
    IF res.ok THEN Located(at, res)
    ELSE IF at = "TryIP" THEN Arm("TryWifi", Pending, FALSE)
    ELSE Fallen(at)

get_location(at, res) == IF res.ok THEN Located(at, res) ELSE Fallen(at)

Printed(arm) == IF arm.print THEN <<"fallback">> ELSE <<>>

\* Exit status of a process whose main returned r, and of one that panicked.
ExitOk == 0
ExitErr == 1
ExitPanic == 101
report(r) == IF r.ok THEN ExitOk ELSE ExitErr

Running == [done |-> FALSE, status |-> ExitOk]
Exited(status) == [done |-> TRUE, status |-> status]

Probe(op, arg) == [op |-> op, arg |-> arg, ret |-> <<>>, done |-> FALSE]
Idle == Probe("none", <<>>)

Start ==
    /\ pc = "TryGPS"
    /\ calls = [gps |-> 0, wifi |-> 0, ip |-> 0]
    /\ trace = <<>>
    /\ gps = [launched |-> FALSE, success |-> FALSE, stdout |-> BadDoc,
              res |-> NotCalled]
    /\ wifi = [key |-> FALSE, launched |-> FALSE, success |-> FALSE,
               stdout |-> <<>>, resp |-> NoResponse,
               out |-> WifiOutcome(NotCalled, 0, 0, NoRequest)]
    /\ ip = [resp |-> NoResponse, res |-> NotCalled]
    /\ result = Pending
    /\ exit = Running

Init == Start /\ probe = Idle

\* get_location, first arm: the GPS adapter is tried.  A process that was
\* not launched has no exit status and no output.
TryGPS ==
    /\ pc = "TryGPS"
    /\ \E launched \in BOOLEAN, success \in BOOLEAN, stdout \in GpsDocs :
          /\ ~launched => (~success /\ stdout = BadDoc)
          /\ LET o == get_gps_location(launched, success, stdout)
                 arm == get_location("TryGPS", o.res)
             IN  /\ gps' = [launched |-> launched, success |-> success,
                            stdout |-> stdout, res |-> o.res]
                 /\ calls' = [calls EXCEPT !.gps = @ + 1]
                 /\ trace' = trace \o <<"gps">>
                                \o (IF o.printed THEN <<"GPS data">> ELSE <<>>)
                                \o Printed(arm)
                 /\ pc' = arm.pc
                 /\ result' = arm.result
    /\ UNCHANGED <<wifi, ip, exit, probe>>

\* get_location, second arm: the WiFi adapter is tried.  nmcli runs only
\* with a key, an answer exists only for a request that was sent, and
\* the build decides whether arithmetic overflow is checked.  A panic
\* unwinds through get_location and main and ends the process.
TryWifi ==
    /\ pc = "TryWifi"
    /\ \E key \in BOOLEAN, launched \in BOOLEAN, success \in BOOLEAN,
          stdout \in ScanOutputs, resp \in GeoResponses,
          overflow_checks \in BOOLEAN :
          LET o == get_geo_location(key, launched, success, stdout, resp,
                                    overflow_checks)
              arm == get_location("TryWifi", o.res)
          IN  /\ ~key => ~launched
              /\ ~launched => (~success /\ stdout = <<>>)
              /\ o.posts = 0 => resp = NoResponse
              /\ wifi' = [key |-> key, launched |-> launched,
                          success |-> success, stdout |-> stdout,
                          resp |-> resp, out |-> o]
              /\ calls' = [calls EXCEPT !.wifi = @ + 1]
              /\ IF o.res.err = "panic"
                 THEN /\ trace' = trace \o <<"wifi", "panic">>
                      /\ pc' = "Panicked"
                      /\ result' = result
                      /\ exit' = Exited(ExitPanic)
                 ELSE /\ trace' = trace \o <<"wifi">> \o Printed(arm)
                      /\ pc' = arm.pc
                      /\ result' = arm.result
                      /\ exit' = exit
    /\ UNCHANGED <<gps, ip, probe>>

\* get_location, third arm and the final else: the IP adapter is tried.
TryIP ==
    /\ pc = "TryIP"
    /\ \E resp \in IpResponses :
          LET res == get_ip_location(resp)
              arm == get_location("TryIP", res)
          IN  /\ ip' = [resp |-> resp, res |-> res]
              /\ calls' = [calls EXCEPT !.ip = @ + 1]
              /\ trace' = trace \o <<"ip">> \o Printed(arm)
              /\ pc' = arm.pc
              /\ result' = arm.result
    /\ UNCHANGED <<gps, wifi, exit, probe>>

\* main: reports what get_location returned, then returns Ok(()).
main ==
    /\ pc \in {"Succeeded", "Failed"}
    /\ ~exit.done
    /\ trace' = Append(trace, IF result.ok THEN "Got location" ELSE "Error")
    /\ exit' = Exited(report(Ok(<<>>)))
    /\ UNCHANGED <<pc, calls, gps, wifi, ip, result, probe>>

Next == TryGPS \/ TryWifi \/ TryIP \/ main

Spec == Init /\ [][Next]_vars

\* ------------------------------------------ the normalizer on its own
\* f64_to_i32_coordinates applied to every pair of a set of degree values
\* with |lat| <= 90 and |lon| <= 180: the values around zero, which hold
\* the ties, and the values at the ends of the two ranges.
LatLimit == 90 * Unit
LonLimit == 180 * Unit
Around(limit) ==
    (-MaxProbe..MaxProbe) \cup {-limit, 1 - limit, limit - 1, limit}

NormalizeInit ==
    /\ Start
    /\ probe \in {Probe("f64_to_i32_coordinates", <<Fin(a), Fin(b)>>) :
                     a \in Around(LatLimit), b \in Around(LonLimit)}

Normalize ==
    /\ probe.op = "f64_to_i32_coordinates" /\ ~probe.done
    /\ probe' = [probe EXCEPT
                    !.ret = f64_to_i32_coordinates(probe.arg[1], probe.arg[2]),
                    !.done = TRUE]
    /\ UNCHANGED resolver

SpecNormalize == NormalizeInit /\ [][Normalize]_vars

\* ------------------------------------------- one scan line on its own
\* The loop body of get_geo_location applied to a line SSID:BSSID:SIGNAL as
\* nmcli -t prints it: the colons inside the SSID and the BSSID are escaped
\* with a backslash.  An SSID is up to MaxSsid pieces, each a letter or an
\* escaped colon; a BSSID is 6 octets.
SsidPieces == {<<"n">>, <<"\\", ":">>}
RECURSIVE Flatten(_)
Flatten(ps) == IF Len(ps) = 0 THEN <<>> ELSE ps[1] \o Flatten(Tail(ps))
Ssids == {Flatten(ps) : ps \in UNION {[1..k -> SsidPieces] : k \in 0..MaxSsid}}
Bssids ==
    {<<<<"a", "a">>, <<"B", "B">>, <<"0", "c">>, <<"d", "d">>, <<"e", "e">>,
       <<"f", "f">>>>,
     <<<<"0", "0">>, <<"1", "1">>, <<"2", "2">>, <<"3", "3">>, <<"4", "4">>,
       <<"5", "5">>>>,
     <<<<"F", "F">>, <<"F", "F">>, <<"F", "F">>, <<"F", "F">>, <<"F", "F">>,
       <<"F", "e">>>>}
Signals == {<<"6", "7">>, <<"0">>, <<"1", "0", "0">>, <<"-", "4", "5">>,
            <<"z", "z">>}

RECURSIVE EscapedMac(_)
EscapedMac(octets) ==
    IF Len(octets) = 1 THEN octets[1]
    ELSE octets[1] \o <<"\\", ":">> \o EscapedMac(Tail(octets))

ScanLine(f) == f.ssid \o <<":">> \o EscapedMac(f.bssid) \o <<":">> \o f.signal

ScanLineInit ==
    /\ Start
    /\ probe \in {Probe("AccessPoint", f) :
                     f \in [ssid : Ssids, bssid : Bssids, signal : Signals]}

ParseScanLine ==
    /\ probe.op = "AccessPoint" /\ ~probe.done
    /\ \E overflow_checks \in BOOLEAN :
          probe' = [probe EXCEPT
                      !.ret = AccessPoint(ScanLine(probe.arg), overflow_checks),
                      !.done = TRUE]
    /\ UNCHANGED resolver

SpecScanLine == ScanLineInit /\ [][ParseScanLine]_vars

\* ------------------------------------------------------------- properties
Count(e) == Cardinality({i \in 1..Len(trace) : trace[i] = e})

Failed(r) == ~r.ok /\ r.err \notin {"NotCalled", "panic"}
Terminal == pc \in {"Succeeded", "Failed"}
Winner ==
    IF gps.res.ok THEN gps.res ELSE IF wifi.out.res.ok THEN wifi.out.res ELSE ip.res
AnyOk == gps.res.ok \/ wifi.out.res.ok \/ ip.res.ok
CallOrder == SelectSeq(trace, LAMBDA e : e \in {"gps", "wifi", "ip"})

\* C1: whenever some adapter has succeeded, get_location has returned
\* Ok(Location) whose coordinates are the normalised pair of the first
\* adapter, in the order GPS, WiFi, IP, that succeeded; and it returns Ok
\* only then.
C1_FirstSuccessWins ==
    /\ AnyOk => /\ pc = "Succeeded"
                /\ result = Ok([coordinates |->
                        f64_to_i32_coordinates(Winner.val[1], Winner.val[2])])
    /\ result.ok => AnyOk

C1_Witness ==
    /\ pc = "Succeeded" /\ Failed(gps.res) /\ wifi.out.res.ok
    /\ wifi.out.res.val = <<Fin(-3), Fin(25600)>>
    /\ result.val.coordinates = <<-23438, 200000000>>

\* C2: once the GPS adapter has succeeded, the resolver is in Succeeded and
\* neither the WiFi nor the IP adapter has been or is ever invoked.
C2_GpsShortCircuits ==
    gps.res.ok => /\ pc = "Succeeded"
                  /\ calls.wifi = 0 /\ calls.ip = 0
                  /\ CallOrder = <<"gps">>

C2_Witness == gps.res.ok /\ pc = "Succeeded" /\ exit.done /\ calls.wifi = 0

\* C3: the adapters are invoked in the order GPS, WiFi, IP, the WiFi adapter
\* only after the GPS adapter failed, the IP adapter only after the WiFi
\* adapter failed; when GPS fails and WiFi succeeds the IP adapter is never
\* invoked.
C3_FallbackOrdering ==
    /\ CallOrder \in {<<>>, <<"gps">>, <<"gps", "wifi">>, <<"gps", "wifi", "ip">>}
    /\ calls.wifi > 0 => Failed(gps.res)
    /\ calls.ip > 0 => Failed(wifi.out.res)
    /\ (Failed(gps.res) /\ wifi.out.res.ok) => (calls.ip = 0 /\ pc = "Succeeded")

C3_Witness ==
    Failed(gps.res) /\ wifi.out.res.ok /\ exit.done /\ calls.ip = 0

\* C4: get_location returns the aggregate error exactly when all three
\* adapters were tried and failed, no Location is produced then, and it
\* returns no other error.
AllFailed == Failed(gps.res) /\ Failed(wifi.out.res) /\ Failed(ip.res)

C4_TotalFailure ==
    /\ (result = Err(AggregateError)) <=> AllFailed
    /\ AllFailed => (pc = "Failed" /\ ~result.ok)
    /\ ~result.ok => result \in {Pending, Err(AggregateError)}
    /\ Terminal => (result.ok \/ AllFailed)

C4_Witness ==
    pc = "Failed" /\ AllFailed /\ result = Err(AggregateError) /\ calls.ip = 1

\* C5: the process exits with a success status when get_location returned
\* Ok and with a failure status when it returned the aggregate error.
C5_ExitStatusReflectsOutcome ==
    (Terminal /\ exit.done) => (exit.status = ExitOk <=> result.ok)

C7_NoRetry ==
    /\ \A a \in {"gps", "wifi", "ip"} : calls[a] <= 1 /\ Count(a) = calls[a]
    /\ wifi.out.nmcli <= 1 /\ wifi.out.posts <= 1

C7_Witness ==
    pc = "Failed" /\ calls = [gps |-> 1, wifi |-> 1, ip |-> 1] /\ exit.done

\* C8: when the scan output has no line of at least 3 colon-delimited
\* fields, the WiFi adapter fails with the no-access-points error and
\* sends no POST.
Colons(l) == Cardinality({i \in 1..Len(l) : l[i] = ":"})
NoAccessPointLine(text) ==
    LET ls == lines(text) IN \A i \in 1..Len(ls) : Colons(ls[i]) < 2

C8_EmptyScanNoRequest ==
    (calls.wifi = 1 /\ wifi.launched /\ NoAccessPointLine(wifi.stdout))
        => /\ wifi.out.res = Err("No Wi-Fi networks found")
           /\ wifi.out.posts = 0
           /\ wifi.out.request = NoRequest

C8_Witness ==
    /\ calls.wifi = 1 /\ wifi.launched /\ Len(lines(wifi.stdout)) = 2
    /\ NoAccessPointLine(wifi.stdout)
    /\ wifi.out.res = Err("No Wi-Fi networks found") /\ wifi.out.posts = 0

\* C9: the WiFi adapter fails whenever the geolocation service answers the
\* POST with a non-success status, whatever the body, and returns a pair
\* only for a success status with a decodable body.
C9_NonSuccessStatusFails ==
    /\ (wifi.out.posts = 1 /\ wifi.resp.sent /\ ~is_success(wifi.resp.status))
           => ~wifi.out.res.ok
    /\ wifi.out.res.ok => /\ is_success(wifi.resp.status)
                          /\ de_GoogleGeoResponse(wifi.resp.body).ok

\* C10: every access point of the request has signalStrength <= 0, and the
\* negation of the parsed value never overflows or panics.
C10_SignalStrengthNonPositive ==
    /\ \A i \in 1..Len(wifi.out.request.wifiAccessPoints) :
          wifi.out.request.wifiAccessPoints[i].signalStrength <= 0
    /\ wifi.out.res.err # "panic"


\* C11: for every scan line SSID:BSSID:SIGNAL whose BSSID is a 6-octet MAC
\* with escaped colons, the access point's macAddress is that MAC in
\* canonical form, whatever the SSID is.
CanonicalMac(octets) == to_uppercase(join(octets, ":"))

C11_MacIsCanonical ==
    (probe.op = "AccessPoint" /\ probe.done)
        => /\ probe.ret.ok
           /\ probe.ret.val.macAddress = CanonicalMac(probe.arg.bssid)

\* C12, as stated: every Location returned has its latitude component in
\* [-90000000, 90000000] and its longitude component in
\* [-180000000, 180000000].
MicroPerDegree == 1000000
WithinMicro(c, degrees) ==
    c >= -(degrees * MicroPerDegree) /\ c <= degrees * MicroPerDegree
CoordinatesInRange(c) == WithinMicro(c[1], 90) /\ WithinMicro(c[2], 180)

C12_CoordinatesInRange ==
    result.ok => CoordinatesInRange(result.val.coordinates)

\* C12, amended: the Location returned has its coordinates inside the valid
\* scaled range whenever the winning adapter returned a finite pair with
\* |lat| <= 90 and |lon| <= 180; the code checks no range, so nothing is
\* said of the coordinates of a pair outside it.
DegreesInRange(p) ==
    /\ p[1].cls = "fin" /\ p[1].n >= -LatLimit /\ p[1].n <= LatLimit
    /\ p[2].cls = "fin" /\ p[2].n >= -LonLimit /\ p[2].n <= LonLimit

C12_InRangeForInRangeSource ==
    (result.ok /\ DegreesInRange(Winner.val))
        => CoordinatesInRange(result.val.coordinates)

C12_Witness ==
    /\ pc = "Succeeded" /\ ip.res.ok /\ DegreesInRange(ip.res.val)
    /\ result.val.coordinates = <<37500000, -122250000>>

\* C13: for |lat| <= 90 and |lon| <= 180 each component of the result is
\* the scaled value of its own argument, rounded to the nearest integer
\* with ties away from zero.  twice is two times the exact scaled value.
Twice(x) == x.n * ((2 * MicroPerDegree) \div Unit)
IsRounded(twice, r) ==
    IF twice % 2 = 0 THEN 2 * r = twice
    ELSE IF twice > 0 THEN 2 * r = twice + 1
    ELSE 2 * r = twice - 1

C13_NormalizerRounds ==
    (probe.op = "f64_to_i32_coordinates" /\ probe.done)
        => /\ IsRounded(Twice(probe.arg[1]), probe.ret[1])
           /\ IsRounded(Twice(probe.arg[2]), probe.ret[2])

C13_Witness ==
    /\ probe.done /\ probe.arg = <<Fin(-3), Fin(1 - LonLimit)>>
    /\ probe.ret = <<-23438, -179992188>>


\* C14: the GPS adapter returns Ok((lat, lon)) exactly when gpspipe was
\* launched, exited with status zero and printed one valid JSON value that
\* is an object with numbers lat and lon, and the pair holds these numbers;
\* in every other case it returns an error and no pair.
GpsFix(doc) ==
    /\ doc.valid /\ doc.v.t = "obj"
    /\ {"lat", "lon"} \subseteq DOMAIN doc.v.m
    /\ doc.v.m["lat"].t = "num" /\ doc.v.m["lon"].t = "num"

C14_GpsOkIff ==
    calls.gps = 1 =>
        /\ gps.res.ok <=> (gps.launched /\ gps.success /\ GpsFix(gps.stdout))
        /\ gps.res.ok =>
              gps.res.val = <<gps.stdout.v.m["lat"].v, gps.stdout.v.m["lon"].v>>
        /\ ~gps.res.ok => (gps.res.val = <<>> /\ gps.res.err # "none")

C14_Witness ==
    /\ calls.gps = 1 /\ gps.launched /\ ~gps.success /\ GpsFix(gps.stdout)
    /\ ~gps.res.ok /\ pc = "TryIP"

\* C15: the IP adapter returns Ok((lat, lon)) exactly when the answer has a
\* success status, its body decodes, loc is present, loc holds exactly one
\* comma and the texts before and after it parse as f64; every other answer
\* gives an error, never a panic.
Commas(s) == {i \in 1..Len(s) : s[i] = ","}
BeforeComma(s) == SubSeq(s, 1, (CHOOSE i \in Commas(s) : TRUE) - 1)
AfterComma(s) == SubSeq(s, (CHOOSE i \in Commas(s) : TRUE) + 1, Len(s))
IpFix(r) ==
    /\ r.sent /\ is_success(r.status)
    /\ r.body.valid /\ r.body.v.t = "obj" /\ "loc" \in DOMAIN r.body.v.m
    /\ r.body.v.m["loc"].t = "str"
    /\ Cardinality(Commas(r.body.v.m["loc"].s)) = 1
    /\ parse_f64(BeforeComma(r.body.v.m["loc"].s)).ok
    /\ parse_f64(AfterComma(r.body.v.m["loc"].s)).ok

IpReturn(r, res) ==
    /\ res.ok <=> IpFix(r)
    /\ res.ok =>
          res.val = <<parse_f64(BeforeComma(r.body.v.m["loc"].s)).val,
                      parse_f64(AfterComma(r.body.v.m["loc"].s)).val>>
    /\ ~res.ok => (res.val = <<>> /\ res.err \notin {"none", "panic"})

C15_IpOkIff ==
    [][calls'.ip # calls.ip => (IpReturn(ip'.resp, ip'.res) /\ pc' # "Panicked")]_vars

C15_Witness ==
    /\ calls.ip = 1 /\ ip.resp.sent /\ is_success(ip.resp.status)
    /\ ip.resp.body = Doc(JObj([loc |-> JStr(<<"3", "7", ".", "5">>)]))
    /\ ip.res = Err("Failed to get location via IP.") /\ pc = "Failed"

\* C16: every call of get_location ends in Succeeded or Failed after at
\* most three adapter invocations: the process never ends with the call in
\* another state.
C16_EndsInTerminalState ==
    /\ calls.gps + calls.wifi + calls.ip <= 3
    /\ exit.done => Terminal

\* C17: whenever the WiFi adapter has run, the list of the request sent holds one entry per scan line of at
\* least 3 colon-delimited fields, in the order of the lines; shorter lines
\* add nothing and do not keep a request from being sent; considerIp is
\* true in every request sent.
Qualifying(text) == SelectSeq(lines(text), LAMBDA l : Colons(l) >= 2)

WifiRequest(w) ==
    LET q == Qualifying(w.stdout)
        aps == w.out.request.wifiAccessPoints
    IN  /\ w.out.posts = 1 =>
              /\ w.out.request.considerIp
              /\ Len(aps) = Len(q)
              /\ \A i \in 1..Len(q) :
                    \E oc \in BOOLEAN :
                       LET ap == AccessPoint(q[i], oc)
                       IN  ap.ok /\ aps[i] = ap.val
        /\ (w.key /\ w.launched /\ w.out.res.err # "panic" /\ w.out.posts = 0)
              => Len(q) = 0

C17_OneEntryPerLine ==
    [][calls'.wifi # calls.wifi => WifiRequest(wifi')]_vars

C17_Witness ==
    /\ wifi.out.posts = 1 /\ Len(lines(wifi.stdout)) = 2
    /\ Colons(lines(wifi.stdout)[1]) < 2 /\ lines(wifi.stdout)[1] # <<>>
    /\ Len(wifi.out.request.wifiAccessPoints) = 1

\* C18: without GEO_API the WiFi adapter fails without running nmcli and
\* without sending a request; nmcli only ever runs with a key present.
C18_KeyReadFirst ==
    /\ (calls.wifi = 1 /\ ~wifi.key)
          => /\ wifi.out.res = Err("NotPresent")
             /\ wifi.out.nmcli = 0 /\ wifi.out.posts = 0
    /\ wifi.out.nmcli > 0 => wifi.key
    /\ wifi.out.posts > 0 => wifi.out.nmcli > 0

C18_Witness ==
    calls.wifi = 1 /\ ~wifi.key /\ wifi.out.nmcli = 0 /\ pc = "Failed"

\* C19: once nmcli was launched its exit status plays no part: a scan that
\* exits non-zero and printed a line of 3 or more fields leads to a POST,
\* one that exits non-zero without such a line fails with the
\* no-access-points error.
C19_ExitStatusIgnored ==
    (calls.wifi = 1 /\ wifi.launched /\ ~wifi.success)
        => IF Len(Qualifying(wifi.stdout)) > 0
           THEN wifi.out.posts = 1
           ELSE /\ wifi.out.res = Err("No Wi-Fi networks found")
                /\ wifi.out.posts = 0

====
